---- MODULE Spec2Model ----
(***************************************************************************)
(* A model of the vscode-python-tox extension: the project directory       *)
(* resolver and the terminal provider of src/utils.ts, and the select /    *)
(* selectMultiple commands of src/extension.ts.                            *)
(*                                                                         *)
(* Strings are sequences of characters.  A path name ("ws", "a.py"), a     *)
(* placeholder ("${workspaceFolder}") and the command prefix ("tox -e ")   *)
(* are each one character of the model's alphabet; "/", ".", " ", ","      *)
(* and the line breaks are the characters the code treats specially.       *)
(* Paths follow Node's posix `path` module.                                *)
(***************************************************************************)
EXTENDS Integers, Sequences, FiniteSets, TLC

VARIABLES
    activeDoc,  \* path of the active editor's document, NoDoc when there is none
    folders,    \* roots of the open workspace folders
    cwdCfg,     \* the setting tox.cwd
    eol,        \* os.EOL
    resolved,   \* outcome of the latest findProjectDir call, while the host state it read stands
    terminals,  \* vscode.window.terminals, in creation order
    nextId,     \* identity of the next terminal the host creates
    calls,   \* the latest two getTerminal calls and what each returned
    cmd         \* the command handler in flight, with what it has done so far

vars == <<activeDoc, folders, cwdCfg, eol, resolved, terminals, nextId, calls, cmd>>

-----------------------------------------------------------------------------
(* Bounds *)

\* longest document path, in segments
MaxDepth == 3
\* most workspace folders open at once
MaxFolders == 2
\* most terminals open at once
MaxTerminals == 2
\* most terminals created in one session
MaxCreated == 3
\* most terminals the commands create in one session
MaxRuns == 2
\* longest output of `tox -a`, in characters
MaxOut == 4

-----------------------------------------------------------------------------
(* Strings *)

\* String.prototype.replace(pattern, value) with a string pattern: the first
\* occurrence only
Replace(s, pat, value) ==
    IF \E i \in 1..Len(s) : s[i] = pat
    THEN LET i == CHOOSE k \in 1..Len(s) : s[k] = pat /\ \A j \in 1..(k-1) : s[j] # pat
         IN  SubSeq(s, 1, i-1) \o value \o SubSeq(s, i+1, Len(s))
    ELSE s

\* whether the separator sep starts at position i of s
StartsAt(s, sep, i) == i + Len(sep) - 1 <= Len(s) /\ SubSeq(s, i, i + Len(sep) - 1) = sep

RECURSIVE Split(_, _)
\* s.split(sep) for a non-empty separator: a sequence of strings
Split(s, sep) ==
    IF \A i \in 1..Len(s) : ~StartsAt(s, sep, i)
    THEN <<s>>
    ELSE LET i == CHOOSE k \in 1..Len(s) :
                      StartsAt(s, sep, k) /\ \A j \in 1..(k-1) : ~StartsAt(s, sep, j)
         IN  <<SubSeq(s, 1, i-1)>> \o Split(SubSeq(s, i + Len(sep), Len(s)), sep)

RECURSIVE Join(_, _)
\* parts.join(sep)
Join(parts, sep) ==
    IF Len(parts) = 0 THEN <<>>
    ELSE IF Len(parts) = 1 THEN parts[1]
    ELSE parts[1] \o sep \o Join(Tail(parts), sep)

-----------------------------------------------------------------------------
(* Node's posix path module *)

Slash == "/"

\* path.isAbsolute
IsAbsolute(p) == Len(p) > 0 /\ p[1] = Slash

\* path.dirname: everything before the last separator that is followed by a
\* segment; the root or "." when there is none
DirName(p) ==
    IF Len(p) = 0 THEN <<".">>
    ELSE LET ends == {i \in 2..Len(p) :
                         p[i] = Slash /\ \E j \in (i+1)..Len(p) : p[j] # Slash}
         IN  IF ends = {}
             THEN IF IsAbsolute(p) THEN <<Slash>> ELSE <<".">>
             ELSE LET e == CHOOSE i \in ends : \A j \in ends : j <= i
                  IN  IF IsAbsolute(p) /\ e = 2 THEN <<Slash, Slash>>
                      ELSE SubSeq(p, 1, e-1)

Dot == <<".">>
DotDot == <<".", ".">>

RECURSIVE NormalizeSegs(_, _, _)
\* normalizeString: drops empty and "." segments, lets ".." remove the segment
\* before it, and keeps a leading ".." only when the path is relative
NormalizeSegs(segs, acc, allowAboveRoot) ==
    IF Len(segs) = 0 THEN acc
    ELSE LET s == Head(segs)
             rest == Tail(segs)
         IN  IF s = <<>> \/ s = Dot
             THEN NormalizeSegs(rest, acc, allowAboveRoot)
             ELSE IF s = DotDot
             THEN IF Len(acc) > 0 /\ acc[Len(acc)] # DotDot
                  THEN NormalizeSegs(rest, SubSeq(acc, 1, Len(acc)-1), allowAboveRoot)
                  ELSE IF allowAboveRoot
                  THEN NormalizeSegs(rest, Append(acc, DotDot), allowAboveRoot)
                  ELSE NormalizeSegs(rest, acc, allowAboveRoot)
             ELSE NormalizeSegs(rest, Append(acc, s), allowAboveRoot)

\* path.normalize
Normalize(p) ==
    IF Len(p) = 0 THEN Dot
    ELSE LET abs == IsAbsolute(p)
             trailing == p[Len(p)] = Slash
             body == Join(NormalizeSegs(Split(p, <<Slash>>), <<>>, ~abs), <<Slash>>)
         IN  IF Len(body) = 0
             THEN IF abs THEN <<Slash>> ELSE IF trailing THEN <<".", Slash>> ELSE Dot
             ELSE (IF abs THEN <<Slash>> ELSE <<>>) \o body
                  \o (IF trailing THEN <<Slash>> ELSE <<>>)

\* path.join(a, b): the non-empty arguments joined by "/", then normalized
PathJoin(a, b) ==
    IF Len(a) = 0 /\ Len(b) = 0 THEN Dot
    ELSE IF Len(a) = 0 THEN Normalize(b)
    ELSE IF Len(b) = 0 THEN Normalize(a)
    ELSE Normalize(a \o <<Slash>> \o b)

-----------------------------------------------------------------------------
(* The host editor's state *)

\* names of files and directories
Names == {"ws", "a"}

\* the absolute path of the segments s[1] .. s[n]
ToPath(s) == Join([i \in 1..Len(s) |-> <<Slash, s[i]>>], <<>>)

\* the absolute, normalized paths of 1 .. n segments
AbsPaths(n) == UNION {{ToPath(s) : s \in [1..k -> Names]} : k \in 1..n}

\* vscode.window.activeTextEditor?.document.uri: undefined when no editor is
\* active
NoDoc == <<>>
Docs == AbsPaths(MaxDepth)

\* the roots (uri.fsPath) a workspace folder can have: directories above a
\* document
Roots == AbsPaths(MaxDepth - 1)

\* root is the directory of doc or above it
Contains(root, doc) ==
    /\ Len(doc) > Len(root)
    /\ SubSeq(doc, 1, Len(root) + 1) = root \o <<Slash>>

\* a document is a file: no open folder is that file or lies under it
Consistent(doc, fs) == doc = NoDoc \/ \A r \in fs : r # doc /\ ~Contains(doc, r)

\* vscode.workspace.getWorkspaceFolder(uri): the innermost open folder that
\* contains the document, undefined (NoFolder) when there is none
NoFolder == <<>>
GetWorkspaceFolder(doc, fs) ==
    LET holding == {r \in fs : Contains(r, doc)}
    IN  IF holding = {} THEN NoFolder
        ELSE CHOOSE r \in holding : \A q \in holding : Len(q) <= Len(r)

WorkspaceFolderVar == "${workspaceFolder}"
FileWorkspaceFolderVar == "${fileWorkspaceFolder}"

\* values of the setting tox.cwd; the empty string and an unset setting are
\* both falsy
NoCwd == <<>>
CwdSettings ==
    { NoCwd,
      <<WorkspaceFolderVar, Slash, "sub">>,
      <<FileWorkspaceFolderVar, Slash, "sub">>,
      <<FileWorkspaceFolderVar, Slash, WorkspaceFolderVar>>,
      <<"sub", Slash, ".", ".", Slash, "a", Slash>>,
      <<Slash, "a", Slash, Slash, "sub">> }

-----------------------------------------------------------------------------
(* src/utils.ts and src/extension.ts: findProjectDir *)

Returned(v) == [ok |-> TRUE, value |-> v, error |-> ""]
Threw(e) == [ok |-> FALSE, value |-> <<>>, error |-> e]
NotCalled == [ok |-> FALSE, value |-> <<>>, error |-> "not called"]

NoActiveDocument == "No active editor found."

\* utils.ts findProjectDir, with the mutants used to test the claims about it
FindProjectDirOfFile(doc, cfg, fs) ==
    IF doc = NoDoc THEN Threw(NoActiveDocument) ELSE Returned(DirName(doc))

FindProjectDirOverrideOutside(doc, cfg, fs) ==
    IF doc = NoDoc THEN Threw(NoActiveDocument)
    ELSE LET workspaceFolder == GetWorkspaceFolder(doc, fs)
             base == IF workspaceFolder = NoFolder THEN DirName(doc) ELSE workspaceFolder
             toxRootFolder == Replace(cfg, FileWorkspaceFolderVar, DirName(doc))
         IN  IF cfg = NoCwd THEN Returned(Normalize(base))
             ELSE IF IsAbsolute(toxRootFolder) THEN Returned(Normalize(toxRootFolder))
             ELSE Returned(Normalize(PathJoin(base, toxRootFolder)))

FindProjectDir(doc, cfg, fs) ==
    IF doc = NoDoc THEN Threw(NoActiveDocument)
    ELSE LET workspaceFolder == GetWorkspaceFolder(doc, fs)
         IN  IF workspaceFolder = NoFolder
             THEN Returned(DirName(doc))
             ELSE IF cfg # NoCwd
             THEN LET \* line 22 substitutes ${workspaceFolder}; line 23 assigns
                      \* over it from configuration.cwd again
                      discarded == Replace(cfg, WorkspaceFolderVar, workspaceFolder)
                      toxRootFolder == Replace(cfg, FileWorkspaceFolderVar, DirName(doc))
                      folder == IF ~IsAbsolute(toxRootFolder)
                                THEN PathJoin(workspaceFolder, toxRootFolder)
                                ELSE toxRootFolder
                  IN  Returned(Normalize(folder))
             ELSE Returned(Normalize(workspaceFolder))

\* extension.ts findProjectDir: the commands' own copy, which reads no setting
ExtFindProjectDirFallback(doc, fs) ==
    IF doc = NoDoc THEN Returned(Dot)
    ELSE IF GetWorkspaceFolder(doc, fs) # NoFolder THEN Returned(GetWorkspaceFolder(doc, fs))
    ELSE Returned(DirName(doc))

ExtFindProjectDir(doc, fs) ==
    IF doc = NoDoc THEN Threw(NoActiveDocument)
    ELSE LET workspace == GetWorkspaceFolder(doc, fs)
         IN  IF workspace # NoFolder THEN Returned(workspace)
             ELSE Returned(DirName(doc))

NoCall == [fn |-> "none", res |-> NotCalled]

\* no command handler has run yet
IdleCmd ==
    [pc |-> "idle", kind |-> "none", doc |-> NoDoc, projDir |-> <<>>, error |-> "",
     failed |-> FALSE, stdout |-> <<>>, envs |-> <<>>,
     selected |-> [defined |-> FALSE, value |-> <<>>],
     execs |-> 0, picks |-> 0, created |-> <<>>, texts |-> <<>>, errors |-> <<>>]

-----------------------------------------------------------------------------
(* Host events *)

\* the user focuses another document, or closes the last editor
FocusDocument(D) ==
    \E d \in D :
        /\ d # activeDoc
        /\ Consistent(d, folders)
        /\ activeDoc' = d
        /\ resolved' = NoCall
        /\ UNCHANGED <<folders, cwdCfg, eol, terminals, nextId, calls, cmd>>

\* the user adds a folder to the workspace
OpenFolder ==
    \E r \in Roots \ folders :
        /\ Cardinality(folders) < MaxFolders
        /\ Consistent(activeDoc, folders \cup {r})
        /\ folders' = folders \cup {r}
        /\ resolved' = NoCall
        /\ UNCHANGED <<activeDoc, cwdCfg, eol, terminals, nextId, calls, cmd>>

\* the user removes a folder from the workspace
CloseFolder ==
    \E r \in folders :
        /\ folders' = folders \ {r}
        /\ resolved' = NoCall
        /\ UNCHANGED <<activeDoc, cwdCfg, eol, terminals, nextId, calls, cmd>>

\* the user edits the setting tox.cwd
ChangeSetting ==
    \E c \in CwdSettings :
        /\ c # cwdCfg
        /\ cwdCfg' = c
        /\ resolved' = NoCall
        /\ UNCHANGED <<activeDoc, folders, eol, terminals, nextId, calls, cmd>>

-----------------------------------------------------------------------------
(* Calls of the two resolvers *)

CallFindProjectDir ==
    /\ resolved' = [fn |-> "utils", res |-> FindProjectDir(activeDoc, cwdCfg, folders)]
    /\ UNCHANGED <<activeDoc, folders, cwdCfg, eol, terminals, nextId, calls, cmd>>

CallExtFindProjectDir ==
    /\ resolved' = [fn |-> "extension", res |-> ExtFindProjectDir(activeDoc, folders)]
    /\ UNCHANGED <<activeDoc, folders, cwdCfg, eol, terminals, nextId, calls, cmd>>

NoCalls == <<>>

InitResolve ==
    /\ activeDoc = NoDoc
    /\ folders = {}
    /\ cwdCfg = NoCwd
    /\ eol = <<"\n">>
    /\ resolved = NoCall
    /\ terminals = <<>>
    /\ nextId = 1
    /\ calls = NoCalls
    /\ cmd = IdleCmd

NextResolve ==
    \/ FocusDocument(Docs \cup {NoDoc})
    \/ OpenFolder
    \/ CloseFolder
    \/ ChangeSetting
    \/ CallFindProjectDir
    \/ CallExtFindProjectDir

SpecResolve == InitResolve /\ [][NextResolve]_vars

-----------------------------------------------------------------------------
(* Claims about the resolver, under SpecResolve *)

InWorkspace == activeDoc # NoDoc /\ GetWorkspaceFolder(activeDoc, folders) # NoFolder
OutsideWorkspace == activeDoc # NoDoc /\ GetWorkspaceFolder(activeDoc, folders) = NoFolder

\* C1: with cwd = "${workspaceFolder}/sub", findProjectDir returns
\* <workspaceRoot>/sub for every workspace root and document inside it.
C1_WorkspaceFolderSub ==
    (resolved.fn = "utils" /\ InWorkspace
        /\ cwdCfg = <<WorkspaceFolderVar, Slash, "sub">>)
    => /\ resolved.res.ok
       /\ resolved.res.value =
              Normalize(GetWorkspaceFolder(activeDoc, folders) \o <<Slash, "sub">>)

\* C8: for a document outside every workspace folder findProjectDir returns the
\* normalized parent directory of the document, whatever tox.cwd is.
C8_OutsideWorkspace ==
    (resolved.fn = "utils" /\ OutsideWorkspace)
    => /\ resolved.res.ok
       /\ resolved.res.value = Normalize(DirName(activeDoc))
       /\ IsAbsolute(resolved.res.value)

C8_Witness ==
    /\ resolved.fn = "utils"
    /\ OutsideWorkspace
    /\ folders # {}
    /\ cwdCfg = <<FileWorkspaceFolderVar, Slash, "sub">>
    /\ resolved.res.value = <<Slash, "a", Slash, "ws">>

\* C9: for a document inside a workspace folder, with tox.cwd unset, both
\* findProjectDir functions return the folder's root path, normalized.
C9_WorkspaceRoot ==
    (resolved.fn # "none" /\ InWorkspace /\ (resolved.fn = "utils" => cwdCfg = NoCwd))
    => /\ resolved.res.ok
       /\ resolved.res.value = GetWorkspaceFolder(activeDoc, folders)
       /\ resolved.res.value = Normalize(GetWorkspaceFolder(activeDoc, folders))

C9_Witness ==
    /\ resolved.fn = "utils"
    /\ cwdCfg = NoCwd
    /\ activeDoc = <<Slash, "ws", Slash, "a", Slash, "a">>
    /\ folders = {<<Slash, "ws">>, <<Slash, "ws", Slash, "a">>}
    /\ resolved.res.value = <<Slash, "ws", Slash, "a">>
-----------------------------------------------------------------------------
(* src/utils.ts: getTerminal, over the host's terminal registry *)

DefaultName == "tox"
TerminalNames == {DefaultName, "Tox"}

\* a terminal of the registry; sent is the text sent to it so far
Terminal(id, name, cwd) ==
    [id |-> id, name |-> name, cwd |-> cwd, sent |-> <<>>, shown |-> FALSE]

\* vscode.window.createTerminal({cwd, name}): the registry with the new terminal last
CreateTerminal(ts, id, cwd, name) == Append(ts, Terminal(id, name, cwd))

TerminalIds(ts) == {ts[i].id : i \in 1..Len(ts)}

\* getTerminal(projDir, name): the terminal returned, whether it was created, and
\* the registry afterwards; with the mutants used to test the claims about it
GetTerminalMatchingDir(ts, id, projDir, name) ==
    LET found == {i \in 1..Len(ts) : ts[i].name = name /\ ts[i].cwd = projDir}
    IN  IF found # {}
        THEN [ret |-> ts[CHOOSE i \in found : \A j \in found : i <= j].id,
              created |-> FALSE, terminals |-> ts]
        ELSE [ret |-> id, created |-> TRUE,
              terminals |-> CreateTerminal(ts, id, projDir, name)]

GetTerminalDefaultName(ts, id, projDir, name) ==
    LET found == {i \in 1..Len(ts) : ts[i].name = name}
    IN  IF found # {}
        THEN [ret |-> ts[CHOOSE i \in found : \A j \in found : i <= j].id,
              created |-> FALSE, terminals |-> ts]
        ELSE [ret |-> id, created |-> TRUE,
              terminals |-> CreateTerminal(ts, id, projDir, DefaultName)]

GetTerminal(ts, id, projDir, name) ==
    LET found == {i \in 1..Len(ts) : ts[i].name = name}
    IN  IF found # {}
        THEN [ret |-> ts[CHOOSE i \in found : \A j \in found : i <= j].id,
              created |-> FALSE, terminals |-> ts]
        ELSE [ret |-> id, created |-> TRUE,
              terminals |-> CreateTerminal(ts, id, projDir, name)]

\* the latest two calls
Remember(log, call) == IF Len(log) < 2 THEN Append(log, call) ELSE <<log[2], call>>

\* directories a caller passes for projDir
SampleDirs == {<<Slash, "ws">>, <<Slash, "a">>}

\* getTerminal(projDir, name) with both arguments given
CallGetTerminal ==
    \E dir \in SampleDirs, name \in TerminalNames :
        LET r == GetTerminal(terminals, nextId, dir, name)
        IN  /\ r.created => (Len(terminals) < MaxTerminals /\ nextId <= MaxCreated)
            /\ terminals' = r.terminals
            /\ nextId' = IF r.created THEN nextId + 1 ELSE nextId
            /\ calls' = Remember(calls, [name |-> name, dir |-> dir, ok |-> TRUE,
                                         ret |-> r.ret, created |-> r.created])
            /\ UNCHANGED <<activeDoc, folders, cwdCfg, eol, resolved, cmd>>

\* getTerminal() with projDir left to its default, findProjectDir(), which is
\* evaluated before the body and may throw
CallGetTerminalDefaultDir ==
    \E name \in TerminalNames :
        LET d == FindProjectDir(activeDoc, cwdCfg, folders)
            r == GetTerminal(terminals, nextId, d.value, name)
        IN  IF ~d.ok
            THEN /\ calls' = Remember(calls, [name |-> name, dir |-> <<>>, ok |-> FALSE,
                                              ret |-> 0, created |-> FALSE])
                 /\ UNCHANGED <<activeDoc, folders, cwdCfg, eol, resolved, terminals,
                                nextId, cmd>>
            ELSE /\ r.created => (Len(terminals) < MaxTerminals /\ nextId <= MaxCreated)
                 /\ terminals' = r.terminals
                 /\ nextId' = IF r.created THEN nextId + 1 ELSE nextId
                 /\ calls' = Remember(calls, [name |-> name, dir |-> d.value, ok |-> TRUE,
                                              ret |-> r.ret, created |-> r.created])
                 /\ UNCHANGED <<activeDoc, folders, cwdCfg, eol, resolved, cmd>>

\* the user, or another extension, opens a terminal
OpenTerminal ==
    \E dir \in SampleDirs, name \in TerminalNames :
        /\ Len(terminals) < MaxTerminals
        /\ nextId <= MaxCreated
        /\ terminals' = CreateTerminal(terminals, nextId, dir, name)
        /\ nextId' = nextId + 1
        /\ UNCHANGED <<activeDoc, folders, cwdCfg, eol, resolved, calls, cmd>>

\* the user closes a terminal: the host drops it from the registry
CloseTerminal ==
    \E i \in 1..Len(terminals) :
        /\ terminals' = SubSeq(terminals, 1, i-1) \o SubSeq(terminals, i+1, Len(terminals))
        /\ UNCHANGED <<activeDoc, folders, cwdCfg, eol, resolved, nextId, calls, cmd>>

SampleDocs == {NoDoc, <<Slash, "ws", Slash, "a">>, <<Slash, "a", Slash, "ws">>}
SampleFolders == {<<Slash, "ws">>}

InitTerm ==
    /\ activeDoc = NoDoc
    /\ folders = SampleFolders
    /\ cwdCfg = NoCwd
    /\ eol = <<"\n">>
    /\ resolved = NoCall
    /\ terminals = <<>>
    /\ nextId = 1
    /\ calls = NoCalls
    /\ cmd = IdleCmd

NextTerm ==
    \/ FocusDocument(SampleDocs)
    \/ CallGetTerminal
    \/ CallGetTerminalDefaultDir
    \/ OpenTerminal
    \/ CloseTerminal

SpecTerm == InitTerm /\ [][NextTerm]_vars

-----------------------------------------------------------------------------
(* Claims about the terminal provider, under SpecTerm *)

\* C4: a getTerminal call that follows a call with the same name and another
\* directory, while the terminal the earlier call returned is still in the
\* registry, returns that same terminal, creates none and leaves the registry,
\* and so the terminal's working directory, as it was.
C4_SameNameSameTerminal ==
    [][ (/\ calls' # calls
         /\ Len(calls) >= 1
         /\ calls[Len(calls)].ok
         /\ calls'[Len(calls')].ok
         /\ calls'[Len(calls')].name = calls[Len(calls)].name
         /\ calls'[Len(calls')].dir # calls[Len(calls)].dir
         /\ calls[Len(calls)].ret \in TerminalIds(terminals))
        => (/\ calls'[Len(calls')].ret = calls[Len(calls)].ret
            /\ ~calls'[Len(calls')].created
            /\ terminals' = terminals
            /\ nextId' = nextId) ]_vars

C4_Witness ==
    /\ Len(calls) = 2
    /\ calls[1].ok /\ calls[1].created
    /\ calls[2].ok /\ ~calls[2].created
    /\ calls[2].name = calls[1].name
    /\ calls[2].dir # calls[1].dir
    /\ calls[2].ret = calls[1].ret
    /\ \E i \in 1..Len(terminals) :
           terminals[i].id = calls[1].ret /\ terminals[i].cwd = calls[1].dir

\* C5: a getTerminal call whose name is the name of no terminal in the registry
\* appends exactly one terminal, with the given directory and name, returns it,
\* and leaves the terminals that were there unchanged.
C5_NoMatchCreatesOne ==
    [][ (/\ calls' # calls
         /\ calls'[Len(calls')].ok
         /\ \A i \in 1..Len(terminals) : terminals[i].name # calls'[Len(calls')].name)
        => (/\ Len(terminals') = Len(terminals) + 1
            /\ SubSeq(terminals', 1, Len(terminals)) = terminals
            /\ terminals'[Len(terminals')].name = calls'[Len(calls')].name
            /\ terminals'[Len(terminals')].cwd = calls'[Len(calls')].dir
            /\ terminals'[Len(terminals')].id \notin TerminalIds(terminals)
            /\ calls'[Len(calls')].ret = terminals'[Len(terminals')].id
            /\ calls'[Len(calls')].created) ]_vars

C5_Witness ==
    /\ Len(calls) >= 1
    /\ calls[Len(calls)].ok /\ calls[Len(calls)].created
    /\ Len(terminals) = 2
    /\ terminals[2].id = calls[Len(calls)].ret
    /\ terminals[2].name = "Tox"
    /\ terminals[1].name = "tox"
    /\ terminals[2].cwd = calls[Len(calls)].dir
-----------------------------------------------------------------------------
(* src/extension.ts: listing the environments *)

Whitespace == {" ", "\n", "\r"}

\* String.prototype.trim
Trim(s) ==
    LET ink == {i \in 1..Len(s) : s[i] \notin Whitespace}
    IN  IF ink = {} THEN <<>>
        ELSE SubSeq(s, CHOOSE i \in ink : \A j \in ink : i <= j,
                       CHOOSE i \in ink : \A j \in ink : j <= i)

\* getToxEnvs, once `tox -a` has exited with this stdout; with the mutants used
\* to test the claims about it
GetToxEnvsUntrimmed(stdout, sep) == Split(stdout, sep)

GetToxEnvs(stdout, sep) == Split(Trim(stdout), sep)

\* how the promise of exec('tox -a') settles
Resolved(stdout) == [ok |-> TRUE, stdout |-> stdout, message |-> ""]
Rejected(message) == [ok |-> FALSE, stdout |-> <<>>, message |-> message]

\* safeGetToxEnvs: the list, or undefined after showing the error's message
SafeGetToxEnvsSilent(outcome, sep) ==
    IF outcome.ok
    THEN [defined |-> TRUE, envs |-> GetToxEnvs(outcome.stdout, sep), shown |-> <<>>]
    ELSE [defined |-> FALSE, envs |-> <<>>, shown |-> <<>>]

SafeGetToxEnvs(outcome, sep) ==
    IF outcome.ok
    THEN [defined |-> TRUE, envs |-> GetToxEnvs(outcome.stdout, sep), shown |-> <<>>]
    ELSE [defined |-> FALSE, envs |-> <<>>, shown |-> <<outcome.message>>]

-----------------------------------------------------------------------------
(* src/extension.ts: runTox and the two commands *)

ToxRun == "tox -e "

\* the text runTox sends
RunTextSpaced(envs) == <<ToxRun>> \o Join(envs, <<" ">>)

RunText(envs) == <<ToxRun>> \o Join(envs, <<",">>)

\* runTox(envs, projDir): a new terminal named "tox", shown, with the text sent
RunTox(ts, id, envs, projDir) ==
    Append(ts, [Terminal(id, DefaultName, projDir) EXCEPT
                   !.shown = TRUE, !.sent = <<RunText(envs)>>])

Undefined == [defined |-> FALSE, value |-> <<>>]
Picked(v) == [defined |-> TRUE, value |-> v]

\* `!selected`: undefined and the empty string are falsy, every array is truthy
NotSelected(kind, selected) ==
    \/ ~selected.defined
    \/ kind = "select" /\ selected.value = <<>>

\* the environments runTox is given: [selected] in select, selected in selectMultiple
RunArgs(kind, selected) ==
    IF kind = "select" THEN <<selected.value>> ELSE selected.value

\* the command is triggered: findProjectDir, then exec('tox -a') is started
Trigger ==
    \E kind \in {"select", "selectMultiple"} :
        LET d == ExtFindProjectDir(activeDoc, folders)
        IN  /\ cmd.pc \in {"idle", "returned", "threw"}
            /\ nextId <= MaxRuns
            /\ cmd' = IF d.ok
                      THEN [IdleCmd EXCEPT !.pc = "exec", !.kind = kind, !.doc = activeDoc,
                                           !.projDir = d.value, !.execs = 1]
                      ELSE [IdleCmd EXCEPT !.pc = "threw", !.kind = kind,
                                           !.doc = activeDoc, !.error = d.error]
            /\ UNCHANGED <<activeDoc, folders, cwdCfg, eol, resolved, terminals, nextId, calls>>

\* the subprocess ends: safeGetToxEnvs returns, then the command either returns
\* or shows the quick pick
ExecSettles(outcomes) ==
    \E outcome \in outcomes :
        LET r == SafeGetToxEnvs(outcome, eol)
        IN  /\ cmd.pc = "exec"
            /\ cmd' = IF r.defined
                      THEN [cmd EXCEPT !.pc = "pick", !.stdout = outcome.stdout,
                                       !.failed = ~outcome.ok, !.error = outcome.message,
                                       !.envs = r.envs, !.picks = 1,
                                       !.errors = cmd.errors \o r.shown]
                      ELSE [cmd EXCEPT !.pc = "returned",
                                       !.failed = ~outcome.ok, !.error = outcome.message,
                                       !.errors = cmd.errors \o r.shown]
            /\ UNCHANGED <<activeDoc, folders, cwdCfg, eol, resolved, terminals, nextId, calls>>

\* the rest of the command after showQuickPick has settled with `selected`
AfterQuickPick(selected) ==
    /\ cmd.pc = "pick"
    /\ IF NotSelected(cmd.kind, selected)
       THEN /\ cmd' = [cmd EXCEPT !.pc = "returned", !.selected = selected]
            /\ UNCHANGED <<terminals, nextId>>
       ELSE /\ terminals' = RunTox(terminals, nextId, RunArgs(cmd.kind, selected), cmd.projDir)
            /\ nextId' = nextId + 1
            /\ cmd' = [cmd EXCEPT !.pc = "returned", !.selected = selected,
                                  !.created = Append(cmd.created, nextId),
                                  !.texts = Append(cmd.texts,
                                              terminals'[Len(terminals')].sent[1])]
    /\ UNCHANGED <<activeDoc, folders, cwdCfg, eol, resolved, calls>>

\* the items of list at the positions of idx, in list order
RECURSIVE PickItems(_, _)
PickItems(list, idx) ==
    IF Len(list) = 0 THEN <<>>
    ELSE PickItems(SubSeq(list, 1, Len(list) - 1), idx)
         \o (IF Len(list) \in idx THEN <<list[Len(list)]>> ELSE <<>>)

\* the user accepts the quick pick: one item, or with canPickMany the checked
\* items, which may be none
QuickPickAccepted ==
    \/ /\ cmd.kind = "select"
       /\ \E i \in 1..Len(cmd.envs) : AfterQuickPick(Picked(cmd.envs[i]))
    \/ /\ cmd.kind = "selectMultiple"
       /\ \E idx \in SUBSET (1..Len(cmd.envs)) : AfterQuickPick(Picked(PickItems(cmd.envs, idx)))

\* the user dismisses the quick pick: showQuickPick resolves to undefined
QuickPickCancelled == AfterQuickPick(Undefined)

\* what `tox -a` prints
SampleOutputs ==
    { <<"py39", "\n", "py310", "\n", "lint">>,
      <<"py39", "\n", "lint", "\n">>,
      <<"py39", " ", "\n", "lint">>,
      <<"py39", "\r", "\n", "lint">>,
      <<>> }
OutChars == {"py39", " ", "\n", "\r"}
Strings(n) == UNION {[1..k -> OutChars] : k \in 0..n}

\* how exec can fail
ExecErrors == {"Command failed: tox -a", "spawn /bin/sh ENOENT"}

EOLs == {<<"\n">>, <<"\r", "\n">>}

Init ==
    /\ activeDoc = NoDoc
    /\ folders = SampleFolders
    /\ cwdCfg = NoCwd
    /\ eol \in EOLs
    /\ resolved = NoCall
    /\ terminals = <<>>
    /\ nextId = 1
    /\ calls = NoCalls
    /\ cmd = IdleCmd

Next ==
    \/ FocusDocument(SampleDocs)
    \/ CallFindProjectDir
    \/ CallExtFindProjectDir
    \/ Trigger
    \/ ExecSettles({Resolved(o) : o \in SampleOutputs} \cup {Rejected(m) : m \in ExecErrors})
    \/ QuickPickAccepted
    \/ QuickPickCancelled
    \/ CloseTerminal

Spec == Init /\ [][Next]_vars

InitEnvs ==
    /\ activeDoc \in SampleDocs
    /\ folders = SampleFolders
    /\ cwdCfg = NoCwd
    /\ eol \in EOLs
    /\ resolved = NoCall
    /\ terminals = <<>>
    /\ nextId = 1
    /\ calls = NoCalls
    /\ cmd = IdleCmd

NextEnvs ==
    \/ Trigger
    \/ ExecSettles({Resolved(o) : o \in Strings(MaxOut) \cup SampleOutputs})
    \/ QuickPickCancelled

SpecEnvs == InitEnvs /\ [][NextEnvs]_vars
-----------------------------------------------------------------------------
(* Claims about the commands, under Spec *)

\* C2: with no active document findProjectDir throws "No active editor found."
\* and returns no path, and a command triggered then runs no subprocess, shows
\* no quick pick, creates no terminal and sends no text.
C2_NoActiveDocument ==
    /\ (resolved.fn # "none" /\ activeDoc = NoDoc)
        => (~resolved.res.ok /\ resolved.res.error = NoActiveDocument
            /\ resolved.res.value = <<>>)
    /\ (cmd.pc # "idle" /\ cmd.doc = NoDoc)
        => (/\ cmd.pc = "threw"
            /\ cmd.error = NoActiveDocument
            /\ cmd.execs = 0
            /\ cmd.picks = 0
            /\ cmd.created = <<>>
            /\ cmd.texts = <<>>)

C2_Witness ==
    /\ activeDoc = NoDoc
    /\ resolved.fn = "utils"
    /\ cmd.pc = "threw"
    /\ cmd.kind = "selectMultiple"
    /\ cmd.doc = NoDoc
    /\ Len(terminals) = 1

\* no environment came out of the quick pick: it was dismissed, or accepted with
\* an empty item or with no item checked
NoEnvPicked(selected) == ~selected.defined \/ selected.value = <<>>

\* C3: a command whose quick pick ends with no environment picked, a multi-pick
\* accepted with zero items included, creates no terminal, sends no text and
\* shows no message.
C3_EmptySelectionSilent ==
    (cmd.pc = "returned" /\ cmd.picks = 1 /\ NoEnvPicked(cmd.selected))
    => (cmd.created = <<>> /\ cmd.texts = <<>> /\ cmd.errors = <<>>)

\* C6: when exec('tox -a') rejects, the command shows the error's message, once,
\* and returns: no quick pick, no terminal, no text.
C6_SubprocessFailure ==
    cmd.failed
    => (/\ cmd.pc = "returned"
        /\ cmd.errors = <<cmd.error>>
        /\ cmd.error \in ExecErrors
        /\ cmd.picks = 0
        /\ cmd.created = <<>>
        /\ cmd.texts = <<>>)

C6_Witness ==
    /\ cmd.failed
    /\ cmd.pc = "returned"
    /\ cmd.kind = "selectMultiple"
    /\ cmd.execs = 1
    /\ cmd.errors = <<"spawn /bin/sh ENOENT">>

\* the strings of list with a comma between each two
RECURSIVE CommaSeparated(_)
CommaSeparated(list) ==
    IF Len(list) = 0 THEN <<>>
    ELSE IF Len(list) = 1 THEN list[1]
    ELSE CommaSeparated(SubSeq(list, 1, Len(list) - 1)) \o <<",">> \o list[Len(list)]

\* C10: when environments are picked, the command sends exactly one text, to the
\* one terminal it creates: "tox -e " and the picked names joined by commas in
\* the order of the pick.
C10_RunText ==
    (cmd.pc = "returned" /\ cmd.picks = 1 /\ ~NoEnvPicked(cmd.selected))
    => LET picked == IF cmd.kind = "select" THEN <<cmd.selected.value>>
                     ELSE cmd.selected.value
       IN  /\ cmd.texts = << <<"tox -e ">> \o CommaSeparated(picked) >>
           /\ Len(cmd.created) = 1
           /\ \A i \in 1..Len(terminals) :
                  terminals[i].id = cmd.created[1] => terminals[i].sent = cmd.texts
           /\ (picked = << <<"py39">> >>
                  => cmd.texts = << <<"tox -e ", "py39">> >>)
           /\ (picked = << <<"py39">>, <<"lint">> >>
                  => cmd.texts = << <<"tox -e ", "py39", ",", "lint">> >>)

C10_Witness ==
    /\ cmd.pc = "returned"
    /\ cmd.kind = "selectMultiple"
    /\ cmd.selected = Picked(<< <<"py39">>, <<"lint">> >>)
    /\ cmd.texts = << <<"tox -e ", "py39", ",", "lint">> >>
    /\ Len(terminals) = 2
    /\ terminals[2].sent = cmd.texts

-----------------------------------------------------------------------------
(* Claims about the environment list, under SpecEnvs *)

\* C7: the environment list is the output's lines, split on the line separator in
\* order, each element trimmed of surrounding whitespace.
C7_EachElementTrimmed ==
    cmd.pc = "pick" => \A i \in 1..Len(cmd.envs) : cmd.envs[i] = Trim(cmd.envs[i])

\* C7, amended: the environment list is the output, trimmed as a whole, split on
\* the line separator in order: joining it with the separator gives the trimmed
\* output back, no element holds a separator, and only the first element's
\* leading and the last element's trailing whitespace are gone.
C7_TrimmedThenSplit ==
    cmd.pc = "pick"
    => (/\ Len(cmd.envs) >= 1
        /\ Join(cmd.envs, eol) = Trim(cmd.stdout)
        /\ \A i \in 1..Len(cmd.envs) :
               \A k \in 1..Len(cmd.envs[i]) : ~StartsAt(cmd.envs[i], eol, k)
        /\ LET first == cmd.envs[1]
               last == cmd.envs[Len(cmd.envs)]
           IN  /\ first # <<>> => first[1] \notin Whitespace
               /\ last # <<>> => last[Len(last)] \notin Whitespace
        /\ (eol = <<"\n">> /\ cmd.stdout = <<"py39", "\n", "py310", "\n", "lint">>)
               => cmd.envs = << <<"py39">>, <<"py310">>, <<"lint">> >>)

C7_Witness ==
    /\ cmd.pc = "pick"
    /\ eol = <<"\n">>
    /\ cmd.stdout = <<"py39", " ", "\n", "py39">>
    /\ cmd.envs = << <<"py39", " ">>, <<"py39">> >>
====
